---- MODULE Spec2Model ----
(***************************************************************************)
(* Model of the batched concurrent-fetch and pagination engine of          *)
(* FinancialModelingPrep: Ticker.get_inst_owners (ticker.py / tickers.py), *)
(* ForEx._get_historical_fx (forex.py), AbstractAPI.batch_download         *)
(* (_abstract.py), Economics.get_all_data (economics.py) and the Ticker    *)
(* constructor.  One behaviour of Spec is one call of one entry point;     *)
(* `call` says which.                                                      *)
(***************************************************************************)
EXTENDS Integers, Sequences, FiniteSets, TLC

(* ------------------------------ bounds --------------------------------- *)
\* pages 0..MaxPage get a response chosen by the environment; later pages are empty
MaxPage == 3
\* max_workers ranges over 1..MaxWorkers
MaxWorkers == 3
\* records in a non-empty page
RecsPerPage == 1
\* the forex ticker list has 0..MaxTickers elements
MaxTickers == 16
\* batch_download gets 0..MaxBatch tickers
MaxBatch == 5
\* the fields Economics.get_all_data fetches (all_fields, cut to this many)
NumFields == 3
\* the Ticker constructor gets 1..MaxTokens ticker tokens
MaxTokens == 2
\* iter_by_chunk is applied with sizes 1..MaxSize
MaxSize == 6
\* at most MaxHung requests of a call never get an answer
MaxHung == 1
\* method calls made on one constructed Ticker
NumCallers == 2

(* ------------------------- program constants --------------------------- *)
\* ThreadPoolExecutor() without max_workers: min(32, cpu_count + 4) >= 5
DefaultPoolWorkers == 5
\* forex.py: the provider's limit of tickers per request
MAX_INPUT_LEN == 5
\* _abstract.py: batch_download's ThreadPoolExecutor(max_workers=10)
BatchPoolWorkers == 10

VARIABLES
    call,         \* the entry point this behaviour runs
    max_workers,  \* the caller's max_workers argument
    pages,        \* Transport: the response to the request for page p
    ticker,       \* the ticker argument: a sequence of identifiers
    tickerKind,   \* "str" (one identifier given as a string) or "seq"
    strLen,       \* number of characters of a str ticker
    freq,         \* forex: "d", "chart" or "unsupported"
    module,       \* Ticker: the file the class is taken from, "ticker" or "tickers"
    chunk_size,   \* iter_by_chunk: the size of a chunk
    tickers,      \* Ticker: self.tickers
    chunks,       \* forex: the outer chunks not yet submitted
    ls,           \* forex: the results appended so far
    ret,          \* the value the call returned
    pc,           \* position of the calling thread
    i,            \* get_inst_owners: first page index of the next round
    page,         \* get_inst_owners: result of the future yielded last
    res,          \* accumulated result list
    futures,      \* every future submitted so far, in submission order
    round,        \* index in futures of the first future of the current round
    calls,        \* number of data-fetch Transport calls issued so far
    outcome,      \* how the call ended
    endpoint,     \* self._endpoint: the base path, "v3" or "v4"
    th,           \* Ticker methods: the method call of each caller
    overlap,      \* Ticker methods: a call began while another was under way
    default_params \* self._default_params: the parameters of every request

vars == <<call, max_workers, pages, ticker, tickerKind, strLen, freq, module, chunk_size,
          tickers, chunks, ls, ret, pc, i, page, res, futures, round, calls, outcome,
          endpoint, th, overlap, default_params>>

inputs == <<call, max_workers, pages, ticker, tickerKind, strLen, freq, module, chunk_size>>
pagerVars == <<i, page, res>>
fxVars == <<chunks, ls>>
methodVars == <<endpoint, th, overlap>>

(* ------------------------------ values --------------------------------- *)
None == [kind |-> "None", val |-> <<>>]
List(s) == [kind |-> "list", val |-> s]
Exc(name) == [kind |-> "exc", val |-> <<name>>]

\* Python truthiness of a value `if res:` / `while page:`
Truthy(v) ==
    CASE v.kind = "None" -> FALSE
      [] v.kind = "list" -> v.val # <<>>
      [] OTHER -> TRUE

\* the records the provider holds on page p
PageRecords(p) == [k \in 1..RecsPerPage |-> [page |-> p, n |-> k]]

\* the Transport's answer for page p
PageResponse(p) == IF p \in DOMAIN pages THEN pages[p] ELSE "empty"

(* --------------------------- AbstractAPI ------------------------------- *)
\* the query parameters the methods use; a dict maps each to a value (a
\* page index or field, or Given for the one value the call has for it) or
\* to Absent
Keys == {"apikey", "symbol", "page", "date", "period", "year", "quarter",
         "includeCurrentQuarter", "name"}
Absent == -1
Given == 1
NoKw == [k \in Keys |-> Absent]

\* __init__: self._default_params = dict(apikey=...)
OnlyApikey == [NoKw EXCEPT !["apikey"] = Given]

\* d.update(kw)
update(d, kw) == [k \in Keys |-> IF kw[k] # Absent THEN kw[k] ELSE d[k]]

\* `params` is the instance's own dict, not a copy of it
deepcopy_alias(d) == [own |-> TRUE, val |-> d]

\* deepcopy(self._default_params): a new dict with the same content
deepcopy(d) == [own |-> FALSE, val |-> d]

\* _get_data: params = deepcopy(self._default_params); params.update(...):
\* the parameters sent with the request, and self._default_params after it
GetDataParams(kw) == update(deepcopy(default_params).val, kw)
DefaultAfter(kw) ==
    IF deepcopy(default_params).own THEN GetDataParams(kw) ELSE default_params

\* the keyword arguments of get_page(p): symbol, page and date
PageKw(p) == [NoKw EXCEPT !["symbol"] = Given, !["page"] = p, !["date"] = Given]

\* endpoint.replace("v3", "v4") of a base path
replace_v3_v4(e) == IF e = "v3" THEN "v4" ELSE e

\* _get_data: status 200/202 and a decodable body give the body, a
\* non-200/202 status or an undecodable body give None (ignore_error is
\* True), an exception of session.get propagates.
_get_data(resp, body) ==
    CASE resp = "ok" -> body
      [] resp = "status" -> None
      [] resp = "undecodable" -> None
      [] resp = "raise" -> Exc("ConnectionError")

Map(f(_), s) == [k \in 1..Len(s) |-> f(s[k])]

\* a DataFrame with the given rows
DataFrame(rows) == [kind |-> "df", val |-> rows]

\* get_page(page): `if res: return res`, else None
get_page(p) ==
    LET r == PageResponse(p)
        d == _get_data(IF r \in {"data", "empty"} THEN "ok" ELSE r,
                       IF r = "data" THEN List(PageRecords(p)) ELSE List(<<>>))
    IN  IF d.kind = "exc" THEN d
        ELSE IF Truthy(d) THEN d ELSE None

(* ------------------------------ Chunker -------------------------------- *)
Min(a, b) == IF a < b THEN a ELSE b

\* a chunker that drops a final, shorter slice
RECURSIVE iter_by_chunk_full_only(_, _)
iter_by_chunk_full_only(items, size) ==
    IF Len(items) < size THEN <<>>
    ELSE <<SubSeq(items, 1, size)>>
            \o iter_by_chunk_full_only(SubSeq(items, size + 1, Len(items)), size)

\* utils.iter_by_chunk(items, size): consecutive slices of `size` elements,
\* the last one possibly shorter, none for an empty sequence
RECURSIVE iter_by_chunk(_, _)
iter_by_chunk(items, size) ==
    IF items = <<>> THEN <<>>
    ELSE <<SubSeq(items, 1, Min(size, Len(items)))>>
            \o iter_by_chunk(SubSeq(items, Min(size, Len(items)) + 1, Len(items)), size)

(* ------------------------------- ForEx --------------------------------- *)
\* len(ticker) as Python computes it: characters of a str, elements of a list
PyLen(t, kind) == IF kind = "str" THEN strLen ELSE Len(t)

\* __get_historical_fx up to its request: the assertion on the length
\* (a str is a Sequence too) and the frequency test; None when it goes on
\* to call _get_data
fx_precheck(t, kind) ==
    IF PyLen(t, kind) > 5 THEN Exc("AssertionError")
    ELSE IF freq \notin {"d", "chart"} THEN Exc("ValueError")
    ELSE None

\* one row per requested symbol
FxRows(t) == [k \in 1..Len(t) |-> [symbol |-> t[k], date |-> 1]]

\* __get_historical_fx from its request on: a Dict is reshaped to a frame
\* (the chart branch reads `historical` of the wrong variable: None for a
\* historicalStockList, the unbound `data` for a single symbol), anything
\* else is returned as it came
fx_result(t, resp) ==
    LET r == _get_data(IF resp \in {"dict", "list"} THEN "ok" ELSE resp,
                       IF resp = "dict" THEN [kind |-> "dict", val |-> t]
                       ELSE List(FxRows(t)))
    IN  IF r.kind = "dict"
        THEN IF freq = "d" THEN DataFrame(FxRows(r.val))
             ELSE IF Len(r.val) > 1 THEN Exc("TypeError") ELSE Exc("UnboundLocalError")
        ELSE r

\* max_len = max_workers * MAX_INPUT_LEN
max_len(w) == w * MAX_INPUT_LEN

RECURSIVE ConcatRows(_)
ConcatRows(frames) ==
    IF frames = <<>> THEN <<>> ELSE Head(frames).val \o ConcatRows(Tail(frames))

\* pd.concat(ls): None entries are dropped without notice, no entry or only
\* None entries is a ValueError, an entry that is no frame a TypeError
pd_concat(objs) ==
    LET kept == SelectSeq(objs, LAMBDA o : o.kind # "None")
    IN  IF kept = <<>> THEN Exc("ValueError")
        ELSE IF \E k \in 1..Len(kept) : kept[k].kind # "df" THEN Exc("TypeError")
        ELSE DataFrame(ConcatRows(kept))

(* ---------------------------- worker pool ------------------------------ *)
\* a submitted work item: its argument, its state, how often its function
\* was entered, the result (or exception) of its future, and the query
\* parameters of its request; st is "queued", "running", "hung" (running
\* for ever), "done" or "yielded"
Future(a) == [arg |-> a, st |-> "queued", runs |-> 0, result |-> None, params |-> NoKw]

Running == {f \in 1..Len(futures) : futures[f].st = "running"}

\* work items whose request the server never answers: session.get is called
\* without a timeout and stays blocked
Hung == {f \in 1..Len(futures) : futures[f].st = "hung"}

\* the work items that hold a worker thread
Busy == Running \cup Hung

\* Transport calls in flight: the workers' and the calling thread's own
InFlight == Cardinality(Busy) + (IF pc = "inline" THEN 1 ELSE 0)

\* number of threads of the pool of the call
PoolWorkers(w) ==
    CASE call = "get_inst_owners" -> DefaultPoolWorkers
      [] call = "batch_download" -> BatchPoolWorkers
      [] OTHER -> w

FxResponses == {"dict", "list", "status", "undecodable", "raise"}
FetchResponses == {"ok", "status", "raise"}

\* the function handed to batch_download: a fetch of one ticker
func(t, resp) == _get_data(resp, [kind |-> "value", val |-> <<t>>])

\* Economics.get_data: the frame of whatever _get_data gave (None gives
\* the empty frame)
get_data(field, resp) ==
    LET data == _get_data(resp, List(<<[name |-> field, date |-> 1]>>))
    IN  IF data.kind = "exc" THEN data
        ELSE IF data.kind = "None" THEN DataFrame(<<>>)
        ELSE DataFrame(data.val)

\* what a task raises before it issues its request (None: nothing)
TaskPrecheck(a) ==
    CASE call = "_get_historical_fx" -> fx_precheck(a, "seq")
      [] OTHER -> None

\* the answers the Transport may give to the request of a task
TaskResponses(a) ==
    CASE call = "get_inst_owners" -> {PageResponse(a)}
      [] call = "_get_historical_fx" -> FxResponses
      [] OTHER -> FetchResponses

\* what the task returns (or raises) on that answer
TaskResult(a, resp) ==
    CASE call = "get_inst_owners" -> get_page(a)
      [] call = "_get_historical_fx" -> fx_result(a, resp)
      [] call = "batch_download" -> func(a, resp)
      [] OTHER -> get_data(a, resp)

\* the keyword arguments of the _get_data call of a task: a page of
\* get_inst_owners, a field of Economics (name; additional_params is left out),
\* none for the forex fetch, whose tickers are in the url
TaskKw(a) ==
    CASE call = "get_inst_owners" -> PageKw(a)
      [] call = "get_all_data" -> [NoKw EXCEPT !["name"] = a]
      [] OTHER -> NoKw

\* a worker thread takes the oldest queued work item and runs it up to its
\* request
WorkerStart ==
    /\ \E f \in 1..Len(futures) :
        /\ futures[f].st = "queued"
        /\ \A g \in 1..(f-1) : futures[g].st # "queued"
        /\ Cardinality(Busy) < PoolWorkers(max_workers)
        /\ IF TaskPrecheck(futures[f].arg) = None
           THEN /\ futures' = [futures EXCEPT ![f].st = "running", ![f].runs = @ + 1,
                                    ![f].params = GetDataParams(TaskKw(futures[f].arg))]
                /\ calls' = calls + 1
                /\ default_params' = DefaultAfter(TaskKw(futures[f].arg))
           ELSE /\ futures' = [futures EXCEPT ![f].st = "done", ![f].runs = @ + 1,
                                               ![f].result = TaskPrecheck(futures[f].arg)]
                /\ calls' = calls
                /\ UNCHANGED default_params
    /\ UNCHANGED <<inputs, methodVars, pagerVars, fxVars, ret, tickers, pc, round, outcome>>

\* the request of a running work item ends and the future is set
WorkerFinish ==
    /\ \E f \in Running :
        \E resp \in TaskResponses(futures[f].arg) :
            futures' = [futures EXCEPT ![f].st = "done",
                                       ![f].result = TaskResult(futures[f].arg, resp)]
    /\ UNCHANGED <<inputs, default_params, methodVars, pagerVars, fxVars, ret, tickers, pc, round, calls, outcome>>

\* the server never answers the request of a running work item
WorkerHang ==
    /\ Cardinality(Hung) < MaxHung
    /\ \E f \in Running : futures' = [futures EXCEPT ![f].st = "hung"]
    /\ UNCHANGED <<inputs, default_params, methodVars, pagerVars, fxVars, ret, tickers, pc, round, calls, outcome>>

\* futures of the current round that as_completed may yield next
Yieldable == {f \in round..Len(futures) : futures[f].st = "done"}
RoundOver(fs) == \A f \in round..Len(fs) : fs[f].st = "yielded"

\* `with ThreadPoolExecutor` left by an exception: shutdown(wait=True) lets
\* every submitted work item run, then the exception leaves the call
Shutdown ==
    /\ pc = "shutdown"
    /\ \A f \in 1..Len(futures) : futures[f].st \notin {"queued", "running", "hung"}
    /\ pc' = "done"
    /\ UNCHANGED <<inputs, default_params, methodVars, pagerVars, fxVars, ret, tickers, futures, round, calls, outcome>>

(* ------------------------- Ticker.get_inst_owners ---------------------- *)
\* a round of one page more than max_workers
Window_wide(first, w) == [k \in 1..(w + 1) |-> first + k - 1]

\* range(i, i + max_workers): the pages of one round
Window(first, w) == [k \in 1..w |-> first + k - 1]

\* endpoint = self.endpoint; self.endpoint = endpoint.replace("v3", "v4");
\* page, i = 1, 0; res = []
InstOwnersStart ==
    /\ call = "get_inst_owners"
    /\ pc = "start"
    /\ endpoint' = replace_v3_v4(endpoint)
    /\ pc' = "while"
    /\ UNCHANGED <<inputs, default_params, th, overlap, pagerVars, fxVars, ret, tickers, futures, round,
                   calls, outcome>>

\* `while page:` of either branch
InstOwnersWhile ==
    /\ call = "get_inst_owners"
    /\ pc = "while"
    /\ IF Truthy(page)
       THEN IF max_workers > 1
            THEN /\ futures' = futures \o Map(Future, Window(i, max_workers))
                 /\ round' = Len(futures) + 1
                 /\ pc' = "as_completed"
                 /\ UNCHANGED <<calls, default_params>>
            ELSE /\ pc' = "inline"
                 /\ calls' = calls + 1
                 /\ default_params' = DefaultAfter(PageKw(i))
                 /\ UNCHANGED <<futures, round>>
       ELSE /\ pc' = "concat"
            /\ UNCHANGED <<futures, round, calls, default_params>>
    /\ UNCHANGED <<inputs, methodVars, pagerVars, fxVars, ret, tickers, outcome>>

\* a loop over the round in which an empty page, once seen, stays the value
\* of `page` until the round is over
InstOwnersYield_sticky_empty ==
    /\ call = "get_inst_owners"
    /\ pc = "as_completed"
    /\ \E f \in Yieldable :
        LET r == futures[f].result
            fs == [futures EXCEPT ![f].st = "yielded"]
        IN  /\ futures' = fs
            /\ IF r.kind = "exc"
               THEN /\ outcome' = r.val[1]
                    /\ pc' = "shutdown"
                    /\ UNCHANGED <<page, res, i>>
               ELSE /\ page' = IF \E g \in round..Len(fs) :
                                        fs[g].st = "yielded" /\ fs[g].result = None
                                THEN None ELSE r
                    /\ res' = IF r.kind = "list" THEN res \o r.val ELSE res
                    /\ IF RoundOver(fs)
                       THEN i' = i + max_workers /\ pc' = "while"
                       ELSE i' = i /\ pc' = "as_completed"
                    /\ UNCHANGED outcome
    /\ UNCHANGED <<inputs, default_params, methodVars, fxVars, ret, tickers, round, calls>>

\* one iteration of `for future in as_completed(futures)`; after the last
\* one, `i += max_workers`
InstOwnersYield ==
    /\ call = "get_inst_owners"
    /\ pc = "as_completed"
    /\ \E f \in Yieldable :
        LET r == futures[f].result
            fs == [futures EXCEPT ![f].st = "yielded"]
        IN  /\ futures' = fs
            /\ IF r.kind = "exc"
               THEN /\ outcome' = r.val[1]
                    /\ pc' = "shutdown"
                    /\ UNCHANGED <<page, res, i>>
               ELSE /\ page' = r
                    /\ res' = IF r.kind = "list" THEN res \o r.val ELSE res
                    /\ IF RoundOver(fs)
                       THEN i' = i + max_workers /\ pc' = "while"
                       ELSE i' = i /\ pc' = "as_completed"
                    /\ UNCHANGED outcome
    /\ UNCHANGED <<inputs, default_params, methodVars, fxVars, ret, tickers, round, calls>>

\* a serial branch that puts each page in front of the accumulated records
InstOwnersSerial_prepend ==
    /\ call = "get_inst_owners"
    /\ pc = "inline"
    /\ LET r == get_page(i)
       IN  IF r.kind = "exc"
           THEN /\ outcome' = r.val[1]
                /\ pc' = "done"
                /\ UNCHANGED <<page, res, i>>
           ELSE /\ page' = r
                /\ res' = IF r.kind = "list" THEN r.val \o res ELSE res
                /\ i' = i + 1
                /\ pc' = "while"
                /\ UNCHANGED outcome
    /\ UNCHANGED <<inputs, default_params, methodVars, fxVars, ret, tickers, futures, round, calls>>

\* the serial branch: `page = get_page(i)` returns
InstOwnersSerial ==
    /\ call = "get_inst_owners"
    /\ pc = "inline"
    /\ LET r == get_page(i)
       IN  IF r.kind = "exc"
           THEN /\ outcome' = r.val[1]
                /\ pc' = "done"
                /\ UNCHANGED <<page, res, i>>
           ELSE /\ page' = r
                /\ res' = IF r.kind = "list" THEN res \o r.val ELSE res
                /\ i' = i + 1
                /\ pc' = "while"
                /\ UNCHANGED outcome
    /\ UNCHANGED <<inputs, default_params, methodVars, fxVars, ret, tickers, futures, round, calls>>

\* the reshaping after the loop: pd.concat of no frames raises ValueError,
\* otherwise the table has one row per accumulated record
InstOwnersConcat ==
    /\ call = "get_inst_owners"
    /\ pc = "concat"
    /\ IF res = <<>>
       THEN outcome' = "ValueError" /\ ret' = ret
       ELSE outcome' = "returned" /\ ret' = DataFrame(res)
    /\ pc' = "done"
    /\ UNCHANGED <<inputs, default_params, methodVars, pagerVars, fxVars, tickers, futures, round, calls>>

(* ----------------------- ForEx._get_historical_fx ---------------------- *)
\* the dispatch on the type and length of `ticker`
FxDispatch ==
    /\ call = "_get_historical_fx"
    /\ pc = "start"
    /\ IF tickerKind = "str" \/ Len(ticker) <= MAX_INPUT_LEN
       THEN /\ IF fx_precheck(ticker, tickerKind) = None
               THEN /\ pc' = "inline" /\ calls' = calls + 1 /\ outcome' = outcome
                    /\ default_params' = DefaultAfter(NoKw)
               ELSE /\ pc' = "done" /\ calls' = calls
                    /\ outcome' = fx_precheck(ticker, tickerKind).val[1]
                    /\ UNCHANGED default_params
            /\ UNCHANGED chunks
       ELSE /\ chunks' = IF Len(ticker) <= max_len(max_workers)
                         THEN <<ticker>>
                         ELSE iter_by_chunk(ticker, max_len(max_workers))
            /\ pc' = "submit"
            /\ UNCHANGED <<calls, outcome, default_params>>
    /\ UNCHANGED <<inputs, methodVars, pagerVars, ls, ret, tickers, futures, round>>

\* the request made in the calling thread returns
FxInline ==
    /\ call = "_get_historical_fx"
    /\ pc = "inline"
    /\ \E resp \in FxResponses :
        LET r == fx_result(ticker, resp)
        IN  IF r.kind = "exc"
            THEN outcome' = r.val[1] /\ ret' = ret
            ELSE outcome' = "returned" /\ ret' = r
    /\ pc' = "done"
    /\ UNCHANGED <<inputs, default_params, methodVars, pagerVars, fxVars, tickers, futures, round, calls>>

\* a round that submits the whole outer chunk as one request
FxSubmit_whole_chunk ==
    /\ call = "_get_historical_fx"
    /\ pc = "submit"
    /\ IF chunks # <<>>
       THEN /\ futures' = futures \o Map(Future, <<Head(chunks)>>)
            /\ round' = Len(futures) + 1
            /\ chunks' = Tail(chunks)
            /\ pc' = "as_completed"
       ELSE /\ pc' = "concat"
            /\ UNCHANGED <<futures, round, chunks>>
    /\ UNCHANGED <<inputs, default_params, methodVars, pagerVars, ls, ret, tickers, calls,
                   outcome>>

\* one round: a request per chunk of MAX_INPUT_LEN tickers is submitted
FxSubmit ==
    /\ call = "_get_historical_fx"
    /\ pc = "submit"
    /\ IF chunks # <<>>
       THEN LET cs == iter_by_chunk(Head(chunks), MAX_INPUT_LEN)
            IN  /\ futures' = futures \o Map(Future, cs)
                /\ round' = Len(futures) + 1
                /\ chunks' = Tail(chunks)
                /\ pc' = "as_completed"
       ELSE /\ pc' = "concat"
            /\ UNCHANGED <<futures, round, chunks>>
    /\ UNCHANGED <<inputs, default_params, methodVars, pagerVars, ls, ret, tickers, calls, outcome>>

\* one iteration of `for future in as_completed(futures)`
FxYield ==
    /\ call = "_get_historical_fx"
    /\ pc = "as_completed"
    /\ \E f \in Yieldable :
        LET r == futures[f].result
            fs == [futures EXCEPT ![f].st = "yielded"]
        IN  /\ futures' = fs
            /\ IF r.kind = "exc"
               THEN /\ outcome' = r.val[1]
                    /\ pc' = "shutdown"
                    /\ UNCHANGED ls
               ELSE /\ ls' = Append(ls, r)
                    /\ pc' = IF RoundOver(fs) THEN "submit" ELSE "as_completed"
                    /\ UNCHANGED outcome
    /\ UNCHANGED <<inputs, default_params, methodVars, pagerVars, chunks, ret, tickers, round, calls>>

\* res = pd.concat(ls); return res
FxConcat ==
    /\ call = "_get_historical_fx"
    /\ pc = "concat"
    /\ LET r == pd_concat(ls)
       IN  IF r.kind = "exc"
           THEN outcome' = r.val[1] /\ ret' = ret
           ELSE outcome' = "returned" /\ ret' = r
    /\ pc' = "done"
    /\ UNCHANGED <<inputs, default_params, methodVars, pagerVars, fxVars, tickers, futures, round, calls>>

(* ----------------------- AbstractAPI.batch_download -------------------- *)
\* futures = [executor.submit(func, ticker, **kwargs) for ticker in tickers]
BatchSubmit ==
    /\ call = "batch_download"
    /\ pc = "start"
    /\ futures' = Map(Future, ticker)
    /\ pc' = "as_completed"
    /\ UNCHANGED <<inputs, default_params, methodVars, pagerVars, fxVars, ret, tickers, round, calls, outcome>>

\* res = [future.result() for future in as_completed(futures)]; return res
BatchYield ==
    /\ call = "batch_download"
    /\ pc = "as_completed"
    /\ IF RoundOver(futures)
       THEN /\ outcome' = "returned"
            /\ ret' = List(res)
            /\ pc' = "done"
            /\ UNCHANGED <<res, futures>>
       ELSE \E f \in Yieldable :
            LET r == futures[f].result
            IN  /\ futures' = [futures EXCEPT ![f].st = "yielded"]
                /\ IF r.kind = "exc"
                   THEN outcome' = r.val[1] /\ pc' = "shutdown" /\ res' = res
                   ELSE outcome' = outcome /\ pc' = pc /\ res' = Append(res, r)
                /\ ret' = ret
    /\ UNCHANGED <<inputs, default_params, methodVars, i, page, fxVars, tickers, round, calls>>

(* ------------------------ Economics.get_all_data ----------------------- *)
\* the `with` block: a get_data per field is submitted, and leaving the
\* block waits for all of them
AllDataSubmit ==
    /\ call = "get_all_data"
    /\ pc = "start"
    /\ futures' = Map(Future, ticker)
    /\ pc' = "join"
    /\ UNCHANGED <<inputs, default_params, methodVars, pagerVars, fxVars, ret, tickers, round, calls, outcome>>

AllDataJoin ==
    /\ call = "get_all_data"
    /\ pc = "join"
    /\ \A f \in 1..Len(futures) : futures[f].st = "done"
    /\ pc' = "as_completed"
    /\ UNCHANGED <<inputs, default_params, methodVars, pagerVars, fxVars, ret, tickers, futures, round, calls, outcome>>

\* for future in as_completed(futures): res.append(future.result()); return res
AllDataYield ==
    /\ call = "get_all_data"
    /\ pc = "as_completed"
    /\ IF RoundOver(futures)
       THEN /\ outcome' = "returned"
            /\ ret' = List(res)
            /\ pc' = "done"
            /\ UNCHANGED <<res, futures>>
       ELSE \E f \in Yieldable :
            LET r == futures[f].result
            IN  /\ futures' = [futures EXCEPT ![f].st = "yielded"]
                /\ IF r.kind = "exc"
                   THEN outcome' = r.val[1] /\ pc' = "done" /\ res' = res
                   ELSE outcome' = outcome /\ pc' = pc /\ res' = Append(res, r)
                /\ ret' = ret
    /\ UNCHANGED <<inputs, default_params, methodVars, i, page, fxVars, tickers, round, calls>>

(* ------------------------------- Ticker -------------------------------- *)
\* a ticker token: a symbol, written in lower case or not, with surrounding
\* whitespace or not
Token(s, l, w) == [sym |-> s, lower |-> l, ws |-> w]
upper(t) == [t EXCEPT !.lower = FALSE]
strip(t) == [t EXCEPT !.ws = FALSE]

\* the list _get_available_tickers returns; symbol 0 is unknown to the provider
available_tickers == {Token(1, FALSE, FALSE)}

\* the pairs ForEx.available_tickers_ lists; identifier 0 is not among them
available_pairs == 1..MaxTickers

upper_strip(t) == strip(upper(t))

\* Ticker.__init__ after the available tickers are fetched: the outcome and
\* self.tickers
TickerInitResult(t, kind, mod) ==
    CASE kind = "str" ->
            IF upper_strip(t[1]) \in {upper(a) : a \in available_tickers}
            THEN [outcome |-> "constructed", tickers |-> <<upper(t[1])>>]
            ELSE [outcome |-> "AssertionError", tickers |-> <<>>]
      [] kind = "csv" ->
            IF \A k \in 1..Len(t) : upper_strip(t[k]) \in available_tickers
            THEN [outcome |-> "constructed", tickers |-> Map(upper_strip, t)]
            ELSE [outcome |-> "AssertionError", tickers |-> <<>>]
      [] kind = "list" ->
            IF mod = "ticker"
            THEN [outcome |-> "UnboundLocalError", tickers |-> <<>>]
            ELSE IF \A k \in 1..Len(t) : upper_strip(t[k]) \in available_tickers
                 THEN [outcome |-> "constructed", tickers |-> Map(upper, t)]
                 ELSE [outcome |-> "UnboundLocalError", tickers |-> <<>>]

\* Ticker(ticker): the constructor
TickerInit ==
    /\ call = "Ticker"
    /\ pc = "start"
    /\ LET r == TickerInitResult(ticker, tickerKind, module)
       IN  /\ tickers' = r.tickers
           /\ IF r.outcome = "constructed"
              THEN pc' = "constructed" /\ outcome' = outcome
              ELSE pc' = "done" /\ outcome' = r.outcome
    /\ UNCHANGED <<inputs, default_params, methodVars, pagerVars, fxVars, ret, futures, round, calls>>

\* a fetch method of the constructed Ticker issues its request
TickerFetch ==
    /\ call = "Ticker"
    /\ pc = "constructed"
    /\ pc' = "inline"
    /\ calls' = calls + 1
    /\ default_params' = DefaultAfter(NoKw)
    /\ UNCHANGED <<inputs, methodVars, pagerVars, fxVars, ret, tickers, futures, round, outcome>>

\* the request returns
TickerFetchReturn ==
    /\ call = "Ticker"
    /\ pc = "inline"
    /\ \E resp \in FetchResponses :
        LET r == _get_data(resp, List(tickers))
        IN  IF r.kind = "exc"
            THEN outcome' = r.val[1] /\ ret' = ret
            ELSE outcome' = "returned" /\ ret' = r
    /\ pc' = "done"
    /\ UNCHANGED <<inputs, default_params, methodVars, pagerVars, fxVars, tickers, futures, round, calls>>

(* ---------------------------- Ticker methods --------------------------- *)
Callers == 1..NumCallers

\* the methods that switch the endpoint to v4 and set it back
Restoring == {"get_product_segments", "get_geo_segments", "get_transcripts",
              "get_peers", "get_core_info"}

\* the method calls a caller makes: the segment methods take freq,
\* get_transcripts takes a quarter or none
MethodCalls ==
    {[m |-> m, arg |-> a] : m \in {"get_product_segments", "get_geo_segments"},
                            a \in {"A", "Q", "unsupported"}}
        \cup {[m |-> "get_transcripts", arg |-> a] : a \in {"quarter", "none"}}
        \cup {[m |-> m, arg |-> "none"] :
                    m \in {"get_peers", "get_core_info", "get_inst_ownership", "get_profile"}}

\* the calls that leave the endpoint alone: get_profile, and get_transcripts
\* of one quarter
PlainV3(c) == c.m = "get_profile" \/ (c.m = "get_transcripts" /\ c.arg = "quarter")

\* a caller that has not called yet: the method and its argument, the
\* position in it, its local `endpoint` (the instance's endpoint read by the
\* first statement of the call), the instance's endpoint when the call
\* ended, the base path its request went to, how it ended, and the query
\* parameters of its request
NoCall == [m |-> "none", arg |-> "none", pc |-> "idle", local |-> "none",
           after |-> "none", base |-> "none", out |-> "none", params |-> NoKw]

\* the keyword arguments of the _get_data call of a method call: the
\* tickers as symbol but where they are part of the url, period for the
\* quarterly segments, year and quarter for the transcripts
MethodKw(c) ==
    CASE c.m \in {"get_product_segments", "get_geo_segments"} ->
            [NoKw EXCEPT !["symbol"] = Given,
                         !["period"] = IF c.arg = "Q" THEN Given ELSE Absent]
      [] c.m = "get_transcripts" ->
            [NoKw EXCEPT !["year"] = Given,
                         !["quarter"] = IF c.arg = "quarter" THEN Given ELSE Absent]
      [] c.m = "get_inst_ownership" ->
            [NoKw EXCEPT !["symbol"] = Given, !["includeCurrentQuarter"] = Given]
      [] c.m \in {"get_peers", "get_core_info"} -> [NoKw EXCEPT !["symbol"] = Given]
      [] OTHER -> NoKw

Active(t) == th[t].pc \notin {"idle", "ended"}

\* a caller calls a method of the Ticker (the callers are numbered in the
\* order of their calls); the methods that change the endpoint begin with
\* endpoint = self.endpoint
MethodEnter ==
    /\ call = "methods"
    /\ \E t \in Callers : \E c \in MethodCalls :
        /\ th[t].pc = "idle"
        /\ \A u \in 1..(t - 1) : th[u].pc # "idle"
        /\ th' = [th EXCEPT ![t] = [NoCall EXCEPT !.m = c.m, !.arg = c.arg,
                                        !.local = IF PlainV3(c) THEN "none" ELSE endpoint,
                                        !.pc = IF PlainV3(c) THEN "request" ELSE "swap"]]
        /\ overlap' = (overlap \/ \E u \in Callers \ {t} : Active(u))
    /\ UNCHANGED <<inputs, default_params, endpoint, pagerVars, fxVars, ret, tickers, pc, futures, round,
                   calls, outcome>>

\* self.endpoint = endpoint.replace("v3", "v4"); the segment methods then
\* test freq
MethodSwap ==
    /\ call = "methods"
    /\ \E t \in Callers :
        /\ th[t].pc = "swap"
        /\ endpoint' = replace_v3_v4(th[t].local)
        /\ th' = [th EXCEPT ![t].pc = IF th[t].arg = "unsupported" THEN "restore"
                                       ELSE "request"]
    /\ UNCHANGED <<inputs, default_params, overlap, pagerVars, fxVars, ret, tickers, pc, futures, round,
                   calls, outcome>>

\* a request that goes to the base path of its method's API version, whatever
\* the instance's endpoint is
MethodRequest_own_base ==
    /\ call = "methods"
    /\ \E t \in Callers :
        /\ th[t].pc = "request"
        /\ th' = [th EXCEPT ![t].base = IF PlainV3(th[t]) THEN "v3" ELSE "v4",
                             ![t].params = GetDataParams(MethodKw(th[t])),
                             ![t].pc = "response"]
        /\ default_params' = DefaultAfter(MethodKw(th[t]))
    /\ calls' = calls + 1
    /\ UNCHANGED <<inputs, endpoint, overlap, pagerVars, fxVars, ret, tickers, pc, futures,
                   round, outcome>>

\* _get_data: url = urljoin(self._endpoint, url); self.session.get(url, ...)
MethodRequest ==
    /\ call = "methods"
    /\ \E t \in Callers :
        /\ th[t].pc = "request"
        /\ th' = [th EXCEPT ![t].base = endpoint,
                             ![t].params = GetDataParams(MethodKw(th[t])),
                             ![t].pc = "response"]
        /\ default_params' = DefaultAfter(MethodKw(th[t]))
    /\ calls' = calls + 1
    /\ UNCHANGED <<inputs, endpoint, overlap, pagerVars, fxVars, ret, tickers, pc, futures,
                   round, outcome>>

\* the request ends: an exception of session.get leaves the method at once;
\* get_inst_ownership returns its table or raises TypeError, the plain v3
\* methods return, the others set the endpoint back (self.endpoint =
\* endpoint) and return
MethodResponse ==
    /\ call = "methods"
    /\ \E t \in Callers : \E resp \in FetchResponses :
        LET r == _get_data(resp, List(tickers))
            restores == r.kind # "exc" /\ th[t].m \in Restoring /\ ~PlainV3(th[t])
        IN  /\ th[t].pc = "response"
            /\ endpoint' = IF restores THEN th[t].local ELSE endpoint
            /\ th' = [th EXCEPT ![t] =
                        [@ EXCEPT !.pc = "ended", !.after = endpoint',
                                  !.out = IF r.kind = "exc" THEN r.val[1]
                                          ELSE IF th[t].m = "get_inst_ownership" /\ r.kind # "list"
                                          THEN "TypeError"
                                          ELSE "returned"]]
    /\ UNCHANGED <<inputs, default_params, overlap, pagerVars, fxVars, ret, tickers, pc, futures,
                   round, calls, outcome>>

\* an unsupported freq: self.endpoint = endpoint; raise NotImplementedError
MethodRestore ==
    /\ call = "methods"
    /\ \E t \in Callers :
        /\ th[t].pc = "restore"
        /\ endpoint' = th[t].local
        /\ th' = [th EXCEPT ![t].pc = "ended", ![t].after = th[t].local,
                             ![t].out = "NotImplementedError"]
    /\ UNCHANGED <<inputs, default_params, overlap, pagerVars, fxVars, ret, tickers, pc, futures, round,
                   calls, outcome>>

(* ---------------------------- the chunker alone ------------------------ *)
ChunkApply ==
    /\ call = "iter_by_chunk"
    /\ pc = "start"
    /\ chunks' = iter_by_chunk(ticker, chunk_size)
    /\ pc' = "done"
    /\ outcome' = "returned"
    /\ UNCHANGED <<inputs, default_params, methodVars, pagerVars, ls, ret, tickers, futures, round, calls>>

(* ------------------------------- system -------------------------------- *)
PageKinds == {"data", "empty", "status", "raise"}

\* the state every call starts from
Fresh ==
    /\ i = 0
    /\ page = List(<<1>>)
    /\ res = <<>>
    /\ chunks = <<>>
    /\ ls = <<>>
    /\ ret = None
    /\ tickers = <<>>
    /\ futures = <<>>
    /\ round = 1
    /\ calls = 0
    /\ outcome = "running"
    /\ endpoint = "v3"
    /\ th = [t \in Callers |-> NoCall]
    /\ overlap = FALSE
    /\ default_params = OnlyApikey

\* the inputs a call does not have
NoFx == freq = "d" /\ module = "tickers" /\ chunk_size = 0
NoTicker == ticker = <<>> /\ tickerKind = "seq" /\ strLen = 0 /\ NoFx

InitInstOwners ==
    /\ call = "get_inst_owners"
    /\ max_workers \in 1..MaxWorkers
    /\ pages \in [0..MaxPage -> PageKinds]
    /\ NoTicker
    /\ pc = "start"
    /\ Fresh

\* ticker lists 1..n, also with the last one repeating the first or unknown
\* to the provider (identifier 0)
TickerLists ==
    UNION {{[k \in 1..n |-> k],
            [k \in 1..n |-> IF k = n /\ n > 1 THEN 1 ELSE k],
            [k \in 1..n |-> IF k = n THEN 0 ELSE k]} : n \in 0..MaxTickers}

InitForEx ==
    /\ call = "_get_historical_fx"
    /\ max_workers \in 1..MaxWorkers
    /\ pages = <<>>
    /\ \/ tickerKind = "seq" /\ ticker \in TickerLists /\ strLen = 0
       \/ tickerKind = "str" /\ ticker \in {<<0>>, <<1>>}
            /\ strLen \in {MAX_INPUT_LEN, MAX_INPUT_LEN + 1}
    /\ freq \in {"d", "chart", "unsupported"}
    /\ module = "tickers" /\ chunk_size = 0
    /\ pc = "start"
    /\ Fresh

InitBatch ==
    /\ call = "batch_download"
    /\ max_workers = BatchPoolWorkers
    /\ pages = <<>>
    /\ tickerKind = "seq" /\ strLen = 0 /\ NoFx
    /\ \E n \in 0..MaxBatch : ticker = [k \in 1..n |-> k]
    /\ pc = "start"
    /\ Fresh

InitAllData ==
    /\ call = "get_all_data"
    /\ max_workers \in 1..MaxWorkers
    /\ pages = <<>>
    /\ tickerKind = "seq" /\ strLen = 0 /\ NoFx
    /\ ticker = [k \in 1..NumFields |-> k]
    /\ pc = "start"
    /\ Fresh

Tokens == {Token(s, l, w) : s \in {0, 1}, l \in BOOLEAN, w \in BOOLEAN}

InitTicker ==
    /\ call = "Ticker"
    /\ max_workers = 1
    /\ pages = <<>>
    /\ module \in {"ticker", "tickers"}
    /\ \/ tickerKind = "str" /\ ticker \in [1..1 -> Tokens]
       \/ tickerKind = "csv" /\ \E n \in 2..MaxTokens : ticker \in [1..n -> Tokens]
       \/ tickerKind = "list" /\ \E n \in 1..MaxTokens : ticker \in [1..n -> Tokens]
    /\ strLen = 0 /\ freq = "d" /\ chunk_size = 0
    /\ pc = "start"
    /\ Fresh

\* a constructed Ticker of one listed symbol, before any method call
InitMethods ==
    /\ call = "methods"
    /\ max_workers = 1
    /\ pages = <<>>
    /\ ticker = <<Token(1, FALSE, FALSE)>> /\ tickerKind = "str" /\ strLen = 0 /\ NoFx
    /\ tickers = <<Token(1, FALSE, FALSE)>>
    /\ pc = "constructed"
    /\ i = 0 /\ page = List(<<1>>) /\ res = <<>> /\ chunks = <<>> /\ ls = <<>>
    /\ ret = None /\ futures = <<>> /\ round = 1 /\ calls = 0 /\ outcome = "running"
    /\ endpoint = "v3"
    /\ th = [t \in Callers |-> NoCall]
    /\ overlap = FALSE
    /\ default_params = OnlyApikey

InitChunk ==
    /\ call = "iter_by_chunk"
    /\ max_workers = 1
    /\ pages = <<>>
    /\ tickerKind = "seq" /\ ticker \in TickerLists /\ strLen = 0
    /\ freq = "d" /\ module = "tickers"
    /\ chunk_size \in 1..MaxSize
    /\ pc = "start"
    /\ Fresh

Init ==
    \/ InitInstOwners \/ InitForEx \/ InitBatch \/ InitAllData \/ InitTicker
    \/ InitMethods \/ InitChunk

Next ==
    \/ WorkerStart
    \/ WorkerFinish
    \/ WorkerHang
    \/ Shutdown
    \/ InstOwnersStart
    \/ InstOwnersWhile
    \/ InstOwnersYield
    \/ InstOwnersSerial
    \/ InstOwnersConcat
    \/ FxDispatch
    \/ FxInline
    \/ FxSubmit
    \/ FxYield
    \/ FxConcat
    \/ BatchSubmit
    \/ BatchYield
    \/ AllDataSubmit
    \/ AllDataJoin
    \/ AllDataYield
    \/ TickerInit
    \/ TickerFetch
    \/ TickerFetchReturn
    \/ MethodEnter
    \/ MethodSwap
    \/ MethodRequest
    \/ MethodResponse
    \/ MethodRestore
    \/ ChunkApply

Spec == Init /\ [][Next]_vars

(* ------------------------------ properties ----------------------------- *)
Dispatchers == {"batch_download", "_get_historical_fx", "get_all_data"}
Range(s) == {s[k] : k \in 1..Len(s)}
\* a forex fetch of more than 5 distinct listed pairs at the daily frequency
Batched ==
    /\ call = "_get_historical_fx" /\ tickerKind = "seq" /\ Len(ticker) > MAX_INPUT_LEN
    /\ freq = "d" /\ Range(ticker) \subseteq available_pairs
    /\ Cardinality(Range(ticker)) = Len(ticker)
Args(fs) == [k \in 1..Len(fs) |-> fs[k].arg]
Finished(f) == futures[f].st \in {"done", "yielded"}
Raised == {f \in 1..Len(futures) : Finished(f) /\ futures[f].result.kind = "exc"}
Succeeded == {f \in 1..Len(futures) : Finished(f) /\ futures[f].result.kind \in {"df", "value"}}

RECURSIVE Flatten(_)
Flatten(ss) == IF ss = <<>> THEN <<>> ELSE Head(ss) \o Flatten(Tail(ss))

CeilDiv(a, b) == (a + b - 1) \div b

\* the lowest page index whose response is empty
LowestEmptyPage ==
    CHOOSE p \in 0..(MaxPage + 1) :
        /\ PageResponse(p) = "empty"
        /\ \A q \in 0..(p - 1) : PageResponse(q) # "empty"

\* the Transport with n non-empty pages and then only empty ones
PrefixTransport(n) ==
    \A p \in 0..MaxPage : pages[p] = IF p < n THEN "data" ELSE "empty"

\* the identifiers the call tells its caller it could not fetch: neither
\* `return res` of the forex fetch nor that of batch_download carries any
reported_failed == {}

\* the outcomes the dispatch loop has collected
Outcomes == IF call = "_get_historical_fx" THEN ls ELSE res

\* the symbols that have rows in the returned table
SymbolsOf(v) == IF v.kind = "df" THEN {v.val[k].symbol : k \in 1..Len(v.val)} ELSE {}

\* the request names an identifier the provider does not list
RequestsUnknown ==
    \/ call = "Ticker" /\ \E k \in 1..Len(ticker) : upper_strip(ticker[k]) \notin available_tickers
    \/ call = "_get_historical_fx" /\ \E k \in 1..Len(ticker) : ticker[k] \notin available_pairs

\* C1: in windowed mode no record of a page above the lowest empty page is
\* ever accumulated for the merge
C1_NoPhantomPage ==
    (call = "get_inst_owners" /\ max_workers > 1)
        => \A k \in 1..Len(res) : res[k].page < LowestEmptyPage

\* C2: against a Transport with N non-empty pages followed by empty ones the
\* loop ends with exactly the records of pages 0..N-1 in page order
C2_PaginationTermination ==
    \A n \in 0..(MaxPage + 1) :
        (call = "get_inst_owners" /\ PrefixTransport(n) /\ pc \in {"concat", "done"})
            => res = Flatten([p \in 1..n |-> PageRecords(p - 1)])

\* C3: the chunker yields ceil(L/S) batches, whose concatenation is the
\* input, none longer than S
C3_ChunkCoverage ==
    (call = "iter_by_chunk" /\ pc = "done")
        => /\ Len(chunks) = CeilDiv(Len(ticker), chunk_size)
           /\ Flatten(chunks) = ticker
           /\ \A k \in 1..Len(chunks) : Len(chunks[k]) <= chunk_size

C3_Witness ==
    /\ call = "iter_by_chunk" /\ pc = "done"
    /\ Len(chunks) >= 2
    /\ Len(chunks[Len(chunks)]) < chunk_size

\* C4: for more than 5 tickers the batches submitted to the pool are exactly
\* the flat chunks of the input by MAX_INPUT_LEN, ceil(L/5) of them
C4_FlatChunks ==
    (Batched /\ pc = "done")
        => /\ Args(futures) = iter_by_chunk(ticker, MAX_INPUT_LEN)
           /\ Len(futures) = CeilDiv(Len(ticker), MAX_INPUT_LEN)

\* C5: a batched fetch of which some tasks raise and others succeed returns
\* normally and lists the identifiers whose fetch failed
C5_PartialFailureReporting ==
    ((Batched \/ call = "batch_download") /\ pc = "done"
            /\ Raised # {} /\ Succeeded # {})
        => /\ outcome = "returned"
           /\ \A f \in Raised :
                LET a == futures[f].arg
                IN  IF call = "batch_download" THEN a \in reported_failed
                    ELSE Range(a) \subseteq reported_failed

\* C6: when a task raises, every sibling still runs and the dispatch yields
\* one outcome per submitted task, the failure among them as a value
C6_CollectAll ==
    (call \in Dispatchers /\ (call = "_get_historical_fx" => Batched)
            /\ pc = "done" /\ Raised # {})
        => /\ \A f \in 1..Len(futures) : Finished(f)
           /\ Len(Outcomes) = Len(futures)

\* C7: every ticker of the input of a returned batched forex fetch has rows
\* in the table or is reported as missing
C7_NoIdentifierLost ==
    (Batched /\ pc = "done" /\ outcome = "returned")
        => \A k \in 1..Len(ticker) :
                ticker[k] \in SymbolsOf(ret) \/ ticker[k] \in reported_failed

\* C8: a request that names an unknown identifier (and is valid otherwise)
\* ends in an error raised by the validation, without any data-fetch
\* Transport call
C8_ValidationFailFast ==
    (call \in {"Ticker", "_get_historical_fx"} /\ pc = "done" /\ RequestsUnknown
            /\ (call = "_get_historical_fx" => freq = "d" /\ PyLen(ticker, tickerKind) <= 5))
        => (outcome \in {"AssertionError", "UnboundLocalError"} /\ calls = 0)

\* the tasks the input of a dispatch stands for
ExpectedTasks ==
    IF call = "_get_historical_fx" THEN iter_by_chunk(ticker, MAX_INPUT_LEN) ELSE ticker

\* C9: each ticker, batch or field of the input is executed exactly once
C9_ExactlyOnce ==
    (call \in Dispatchers /\ (call = "_get_historical_fx" => Batched) /\ pc = "done")
        => /\ Args(futures) = ExpectedTasks
           /\ \A f \in 1..Len(futures) : futures[f].runs = 1

\* C10: never more Transport calls in flight than max_workers
C10_BoundedConcurrency ==
    (call \in {"_get_historical_fx", "get_inst_owners"}) => InFlight <= max_workers

C10_Witness ==
    /\ call = "_get_historical_fx"
    /\ max_workers > 1
    /\ InFlight = max_workers

\* position of the first occurrence of x in s (0: not in s)
IndexIn(s, x) ==
    IF \E k \in 1..Len(s) : s[k] = x
    THEN CHOOSE k \in 1..Len(s) : s[k] = x /\ \A j \in 1..(k - 1) : s[j] # x
    ELSE 0

\* C11: the rows of the table a batched forex fetch returns follow the
\* order of the tickers in the input list, whatever order the batch
\* fetches complete in
C11_InputOrderMerge ==
    (Batched /\ pc = "done" /\ outcome = "returned" /\ ret.kind = "df")
        => \A j, k \in 1..Len(ret.val) :
                j < k => IndexIn(ticker, ret.val[j].symbol) <= IndexIn(ticker, ret.val[k].symbol)

\* the round of get_inst_owners that submits page p
RoundOf(p) == p \div max_workers

\* C12: once the caller has got an empty or failed page, no request of a
\* later round is issued (windowed), nor of a later page (serial)
C12_TerminalStates ==
    (call = "get_inst_owners")
        => /\ \A f, g \in 1..Len(futures) :
                (futures[f].st = "yielded" /\ futures[f].result = None
                        /\ futures[g].st # "queued")
                    => RoundOf(futures[g].arg) <= RoundOf(futures[f].arg)
           /\ (pc = "inline" => Truthy(page))

\* the pages whose request get_inst_owners has got an answer to
FetchedPages ==
    IF max_workers > 1
    THEN {futures[f].arg : f \in {g \in 1..Len(futures) : Finished(g)}}
    ELSE 0..(i - 1)

\* C13: a get_inst_owners call one of whose page requests failed (status
\* not 200/202, or body undecodable) does not end like a complete one, with
\* a table returned
C13_FailedPageDistinguished ==
    (call = "get_inst_owners" /\ pc = "done"
            /\ \E p \in FetchedPages : PageResponse(p) = "status")
        => outcome # "returned"

\* C14: no two rows of the table a batched daily forex fetch returns have
\* the same key (symbol, date), also when a ticker is in two batches
C14_UniqueKeys ==
    (call = "_get_historical_fx" /\ tickerKind = "seq" /\ Len(ticker) > MAX_INPUT_LEN
            /\ freq = "d" /\ Range(ticker) \subseteq available_pairs
            /\ pc = "done" /\ outcome = "returned" /\ ret.kind = "df")
        => \A j, k \in 1..Len(ret.val) :
                (ret.val[j].symbol = ret.val[k].symbol /\ ret.val[j].date = ret.val[k].date)
                    => j = k

\* the orders in which n partial results can be delivered
Perms(n) == {q \in [1..n -> 1..n] : \A a, b \in 1..n : a # b => q[a] # q[b]}

\* C15: the merge of the partial results of a batched forex fetch (one
\* round, so that the batches complete in any order) gives the same table
\* in whatever order the same results are delivered
C15_MergeIdempotence ==
    (Batched /\ Len(ticker) <= max_len(max_workers) /\ pc = "concat")
        => \A q \in Perms(Len(ls)) :
                pd_concat([k \in 1..Len(ls) |-> ls[q[k]]]) = pd_concat(ls)

\* C16: with an unsupported freq (and a ticker argument that is valid
\* otherwise) no task is ever submitted and no request issued, and the call
\* ends with the ValueError of the frequency test
C16_FreqBeforeDispatch ==
    (call = "_get_historical_fx" /\ freq = "unsupported"
            /\ (tickerKind = "str" => strLen <= MAX_INPUT_LEN)
            /\ Range(ticker) \subseteq available_pairs)
        => /\ futures = <<>>
           /\ calls = 0
           /\ (pc = "done" => outcome = "ValueError")

\* C17: a get_inst_owners call against a Transport all of whose pages are
\* empty ends with the dedicated EmptyResultError
C17_EmptyResultError ==
    (call = "get_inst_owners" /\ PrefixTransport(0) /\ pc = "done")
        => outcome = "EmptyResultError"

\* C18: a batched call one of whose tasks never completes is not blocked:
\* as long as it has not returned it can take a step
C18_NeverBlocks ==
    (call \in {"_get_historical_fx", "get_inst_owners", "batch_download"}
            /\ Hung # {} /\ pc # "done")
        => ENABLED Next

\* a call that ended, made while no other call on the instance was under way
SequentialEnd(t) == ~overlap /\ th[t].pc = "ended"

\* C19: after a sequential call of get_product_segments, get_geo_segments,
\* get_transcripts (no quarter), get_peers or get_core_info the endpoint is
\* what it was before the call, however the call ended
C19_EndpointRestored ==
    (call = "methods")
        => \A t \in Callers :
                (SequentialEnd(t) /\ th[t].m \in Restoring /\ ~PlainV3(th[t]))
                    => th[t].after = th[t].local

\* C20: after get_inst_ownership or get_inst_owners ended the endpoint is
\* what it was before the call, and a v3 method called next sends its
\* request to the v3 base path
C20_SwitchTemporary ==
    /\ (call = "methods")
        => \A t \in Callers :
            /\ (SequentialEnd(t) /\ th[t].m = "get_inst_ownership")
                    => th[t].after = th[t].local
            /\ (~overlap /\ th[t].m = "get_profile" /\ th[t].base # "none"
                    /\ \A u \in Callers \ {t} :
                            th[u].m \in {"none", "get_inst_ownership"})
                    => th[t].base = "v3"
    /\ (call = "get_inst_owners" /\ pc = "done") => endpoint = "v3"

\* C21: the request of every method goes to the endpoint the instance has
\* at the moment it is issued, so that a get_profile overlapping a
\* get_product_segments can send its v3 request to the v4 base path
C21_EndpointRace ==
    [][\A t \in Callers :
        (call = "methods" /\ th[t].pc = "request" /\ th'[t].pc = "response")
            => th'[t].base = endpoint]_vars

\* a get_profile whose request went to v4 although the overlapping
\* get_product_segments returned and set the endpoint back
C21_Witness ==
    /\ call = "methods" /\ overlap
    /\ \E t, u \in Callers :
        /\ th[t].m = "get_profile" /\ th[t].base = "v4"
        /\ th[u].m = "get_product_segments" /\ th[u].out = "returned"
        /\ th[u].local = "v3" /\ th[u].after = "v3"
        /\ \A w \in Callers \ {t, u} : th[w].pc = "idle"

\* C22: a forex fetch of one str ticker at a supported freq issues exactly
\* one request and raises no AssertionError, however many characters the
\* string has
C22_StrTickerAccepted ==
    (call = "_get_historical_fx" /\ tickerKind = "str" /\ freq \in {"d", "chart"}
            /\ pc = "done")
        => (calls = 1 /\ outcome # "AssertionError")

\* C23: for a list input every __get_historical_fx call gets at most 5
\* tickers, whether made inline or as a task, and its assertion never fails
C23_BatchLimit ==
    (call = "_get_historical_fx" /\ tickerKind = "seq")
        => /\ \A f \in 1..Len(futures) :
                /\ Len(futures[f].arg) <= 5
                /\ futures[f].result # Exc("AssertionError")
           /\ (pc = "inline" => Len(ticker) <= 5)
           /\ outcome # "AssertionError"

\* a returned fetch of the two-level branch with a full and a shorter batch
C23_Witness ==
    /\ call = "_get_historical_fx" /\ tickerKind = "seq"
    /\ Len(ticker) > max_len(max_workers)
    /\ pc = "done" /\ outcome = "returned"
    /\ \E f, g \in 1..Len(futures) : Len(futures[f].arg) = 5 /\ Len(futures[g].arg) < 5

\* the lowest page index whose request gives an empty or failed page
FirstStop ==
    CHOOSE p \in 0..(MaxPage + 1) :
        /\ PageResponse(p) \in {"empty", "status"}
        /\ \A q \in 0..(p - 1) : PageResponse(q) \notin {"empty", "status"}

\* C24: the serial get_inst_owners uses no pool and requests page 0, 1, 2,
\* ... one at a time (page i is the request number i + 1, made when the
\* one before has returned); when no request raises it ends after that of
\* the first empty or failed page N, with N + 1 requests made and the
\* records of the pages 0..N-1 in page order
C24_SerialPagination ==
    (call = "get_inst_owners" /\ max_workers <= 1 /\ pc # "start")
        => /\ futures = <<>>
           /\ calls = i + (IF pc = "inline" \/ outcome = "ConnectionError" THEN 1 ELSE 0)
           /\ i <= FirstStop + 1
           /\ (pc = "while" /\ i > 0) => (Truthy(page) <=> i <= FirstStop)
           /\ (pc \in {"concat", "done"}
                    /\ \A q \in 0..(FirstStop - 1) : PageResponse(q) = "data")
                => /\ calls = FirstStop + 1
                   /\ res = Flatten([p \in 1..FirstStop |-> PageRecords(p - 1)])

\* a serial fetch that returned the records of at least two pages
C24_Witness ==
    /\ call = "get_inst_owners" /\ max_workers <= 1
    /\ pc = "done" /\ outcome = "returned"
    /\ FirstStop >= 2 /\ calls = FirstStop + 1

\* x is in s exactly once
Once(s, x) == \E j \in 1..Len(s) : s[j] = x /\ \A h \in 1..Len(s) : s[h] = x => h = j

\* the futures whose list of records the loop has taken
IsTaken(f) == futures[f].st = "yielded" /\ futures[f].result.kind = "list"
Taken == {f \in 1..Len(futures) : IsTaken(f)}

\* the windowed get_inst_owners has submitted the pages 0, 1, 2, ... once
\* each, in whole rounds of max_workers, and res holds each record of each
\* page taken exactly once and nothing else; against a Transport with n
\* non-empty pages and then empty ones there is at most one round after the
\* round of page n
WindowedInv ==
    /\ Args(futures) = [k \in 1..Len(futures) |-> k - 1]
    /\ Len(futures) = i + (IF pc \in {"as_completed", "shutdown"} \/ outcome = "ConnectionError"
                           THEN max_workers ELSE 0)
    /\ i % max_workers = 0
    /\ Len(res) = RecsPerPage * Cardinality(Taken)
    /\ \A f \in 1..Len(futures) :
            LET recs == PageRecords(futures[f].arg)
            IN  IF IsTaken(f) THEN \A k \in 1..RecsPerPage : Once(res, recs[k])
                ELSE \A j \in 1..Len(res) : res[j].page # futures[f].arg
    /\ \A n \in 0..(MaxPage + 1) :
            PrefixTransport(n) => Len(futures) <= (RoundOf(n) + 2) * max_workers

\* C25: the windowed get_inst_owners keeps WindowedInv; `page` is the
\* result of the future yielded last, and after a round the next round is
\* submitted if and only if that page is non-empty, else the loop is left
C25_WindowedLoop ==
    [][(call = "get_inst_owners" /\ max_workers > 1 /\ pc # "start")
        => /\ WindowedInv'
           /\ \A f \in 1..Len(futures) :
                (futures[f].st = "done" /\ futures'[f].st = "yielded" /\ pc' # "shutdown")
                    => page' = futures[f].result
           /\ (pc = "while")
                => IF Truthy(page)
                   THEN futures' = futures \o Map(Future, Window(i, max_workers))
                   ELSE futures' = futures /\ pc' = "concat"]_vars

\* a returned windowed fetch that made the extra round: a non-empty page of
\* the round of the first empty page was yielded last
C25_Witness ==
    /\ call = "get_inst_owners" /\ max_workers > 1
    /\ pc = "done" /\ outcome = "returned"
    /\ \E n \in 1..MaxPage :
        /\ PrefixTransport(n)
        /\ n % max_workers # 0
        /\ Len(futures) = (RoundOf(n) + 2) * max_workers

\* a call of an endpoint-swapping method that returned
SwapReturned(t) ==
    th[t].m \in Restoring /\ ~PlainV3(th[t]) /\ th[t].pc = "ended" /\ th[t].out = "returned"

\* C26: when two overlapping calls of endpoint-swapping methods, the only
\* calls made on the instance, have both returned, the endpoint is what it
\* was before the first of them began
C26_RestoredUnderOverlap ==
    (call = "methods" /\ overlap)
        => \A t, u \in Callers :
                (t < u /\ SwapReturned(t) /\ SwapReturned(u)
                        /\ \A w \in Callers \ {t, u} : th[w].pc = "idle")
                    => endpoint = th[t].local

\* C27: every element of self.tickers of a constructed Ticker is in the
\* list of available tickers
C27_StoredTickersValid ==
    (call = "Ticker" /\ pc \in {"constructed", "inline", "done"}
            /\ outcome \notin {"AssertionError", "UnboundLocalError"})
        => \A k \in 1..Len(tickers) : tickers[k] \in available_tickers

\* the request of a task has been issued
Requested(f) == futures[f].st # "queued" /\ TaskPrecheck(futures[f].arg) = None

\* C28: self._default_params never holds more than the apikey, and every
\* request carries the apikey and the keyword arguments of its own call
\* only
C28_ParamsPerCall ==
    /\ default_params = OnlyApikey
    /\ \A f \in 1..Len(futures) :
            Requested(f)
                => futures[f].params = update(OnlyApikey, TaskKw(futures[f].arg))
    /\ (call = "methods")
        => \A t \in Callers :
                (th[t].base # "none") => th[t].params = update(OnlyApikey, MethodKw(th[t]))

\* a request without period made while a quarterly one is under way
C28_Witness ==
    /\ call = "methods" /\ overlap
    /\ \E t, u \in Callers :
        /\ t < u
        /\ th[t].pc = "response" /\ th[t].params["period"] = Given
        /\ th[u].pc = "response" /\ th[u].m = "get_geo_segments"
        /\ th[u].params["period"] = Absent /\ th[u].params["symbol"] # Absent
====
